---------------------------- MODULE Spec2Model ----------------------------
(***************************************************************************)
(* Leom, the reactive core of MicroView (src/src/signal.js): signals,      *)
(* effects, memos, the cleanup lists and the microtask scheduler.          *)
(*                                                                         *)
(* JavaScript is single threaded: the only nondeterminism is what the      *)
(* user's code does.  User code runs at top level (a synchronous turn),    *)
(* inside the function given to createEffect / createMemo, and inside      *)
(* the cleanup callbacks.  The call stack is explicit (stack), so that     *)
(* user code nested in the library's own loops (the flush loop, the        *)
(* cleanup forEach of a re-run, the disposer) is interleaved exactly       *)
(* where the source calls it.                                              *)
(***************************************************************************)
EXTENDS Integers, Naturals, Sequences, FiniteSets, TLC

\* ------------------------------------------------------------- universe
Sigs == {"a", "b"}                \* signals made by createSignal
EffectSeq == <<"e1", "e2">>       \* computations made by createEffect,
Effects == {EffectSeq[i] : i \in 1..Len(EffectSeq)}   \* in creation order
Memos == {"m1"}                   \* computations made by createMemo
Comps == Effects \cup Memos
Roots == {"r1"}                   \* context objects made by createRoot
Ctxs == Comps \cup Roots          \* everything currentEffect can point to
Srcs == Sigs \cup Memos           \* everything that owns a subscriber Set
Vals == {0, 1}                    \* values stored in signals and memos
None == "none"                    \* null / undefined
Undefined == -1                   \* createMemo: let value, before fn() returned

\* A cleanup callback is user code.  It either returns, throws, or calls
\* the disposer of an effect (named by the effect).
CleanupKinds == {"ok", "throw"} \cup Effects

\* What a user function throws: an Error object (any value with
\* properties), or null / undefined.
Thrown == {"error", "nullish"}

\* Total number of user-level operations in one behaviour.
MaxFuel == 6

VARIABLES
  \* ---- the program's state
  value,          \* createSignal: let value            [Sigs -> Vals]
  subs,           \* subscribers / memoSubscribers, insertion ordered
  mvalue,         \* createMemo: let value
  initialized,    \* createMemo: let initialized
  deps,           \* effect.dependencies, named by the owner of the Set
  cleanups,       \* effect.cleanups
  disposed,       \* effect.disposed
  running,        \* effect.running
  effectQueue,    \* the module's effectQueue, insertion ordered
  isBatching,     \* the module's isBatching
  microtasks,     \* flush callbacks handed to queueMicrotask, not yet started
  currentEffect,  \* the module's currentEffect
  stack,          \* call stack, innermost frame last
  exc,            \* the value being thrown, None when nothing is
  status,         \* "none" | "creating" | "live" | "failed" per computation
  fuel,           \* user operations left
  \* ---- observations of the current flush (reset when it ends)
  flushCalls,     \* calls eff() made by the flush loop, per computation
  flushBodies,    \* calls fn() made by those, per computation
  turnVal,        \* the signals' values when the flush began
  flushWritten,   \* signals written since the flush began
  flushThrew,     \* computations whose eff() threw in this flush
  \* ---- observations of the latest run of each computation
  bodyReads,      \* sources read by getter calls since fn() started
  regs,           \* cleanups registered by fn() since it started
  invoked,        \* cleanups called by the prologue of the re-run
  \* ---- other observations
  dcalled,        \* the disposer of the effect has been called
  selfTrig,       \* enqueued by a write of its own body while running
  lastRet,        \* value returned by the memo's latest completed fn()
  ignored,        \* signals with subscribers that received a write of
                  \* their own value since the last flush began
  \* ---- observations of lifetimes
  owner,          \* the root whose setup was executing at creation
  cinv,           \* per entry of a cleanup list: calls made of it (0, 1, 2+)
  dstage,         \* after the disposer call: "no", "wait" once a flush
                  \* has begun, "done" once that flush has ended
  seen            \* per computation: the value each getter call of the
                  \* latest run of a read-only body returned, by source

prog == <<value, subs, mvalue, initialized, deps, cleanups, disposed, running,
          effectQueue, isBatching, microtasks, currentEffect, stack, exc,
          status>>
flushObs == <<flushCalls, flushBodies, turnVal, flushWritten, flushThrew>>
runObs == <<bodyReads, regs, invoked>>
otherObs == <<dcalled, selfTrig, lastRet, ignored>>
lifeObs == <<owner, cinv, dstage, seen>>
vars == <<prog, fuel, flushObs, runObs, otherObs, lifeObs>>

\* ------------------------------------------------------------- helpers
Range(q) == {q[i] : i \in 1..Len(q)}

\* Set.prototype.add on an insertion-ordered Set
SetAdd(q, x) == IF x \in Range(q) THEN q ELSE Append(q, x)

\* Set.prototype.delete on an insertion-ordered Set
SetDelete(q, x) == SelectSeq(q, LAMBDA y : y # x)

\* A stack frame.  k = "flush": the flush callback, snap its snapshot
\* Array.from(effectQueue), i the loop index, c the eff being called.
\* k = "run": effect() / memoEffect() of c, ph = "cleanup" while in the
\* prologue (i the forEach index), ph = "body" inside try (prev =
\* prevEffect), init = the initial run.  k = "dispose": the disposer of c,
\* i its forEach index.  k = "root": fn(dispose) of createRoot for the
\* context c (prev = prevEffect).  k = "rdispose": dispose() of the root c.
Frame(k, c, ph, i, prev, snap, init) ==
  [k |-> k, c |-> c, ph |-> ph, i |-> i, prev |-> prev, snap |-> snap,
   init |-> init]

Top == stack[Len(stack)]
Pop == SubSeq(stack, 1, Len(stack) - 1)
ReplaceTop(f) == [stack EXCEPT ![Len(stack)] = f]

\* the ambient context is cleared instead of restored
RestoreNull(f) == None

\* finally { currentEffect = prevEffect }
Restore(f) == f.prev

\* user code is executing: at top level, or in the body of a computation
InBody ==
  exc = None /\ stack # <<>> /\ Top.k \in {"run", "root"} /\ Top.ph = "body"
AtTop == exc = None /\ stack = <<>>
UserCode == AtTop \/ InBody

\* a flush callback is on the stack (it is always the outermost frame)
InFlush == stack # <<>> /\ stack[1].k = "flush"
\* the body on top of the stack belongs to a re-run made by the flush
InRerun == InBody /\ ~Top.init

Min(x, y) == IF x < y THEN x ELSE y

\* ------------------------------------------------------------ scheduler
\* The three pieces of scheduler state one call of scheduleUpdate touches.
Sched(q, b, m) == [q |-> q, b |-> b, m |-> m]

\* a computation that is not pending goes to the front of the queue
scheduleUpdateFirst(st, eff) ==
  Sched(IF eff \in Range(st.q) THEN st.q ELSE <<eff>> \o st.q,
        TRUE,
        IF st.b THEN st.m ELSE st.m + 1)

\* every call hands a callback to queueMicrotask
scheduleUpdateUnbatched(st, eff) ==
  Sched(IF eff \in Range(st.q) THEN st.q ELSE Append(st.q, eff),
        TRUE,
        st.m + 1)

\* scheduleUpdate(effect): add to the queue if absent; if no flush is
\* scheduled, set isBatching and hand one callback to queueMicrotask.
scheduleUpdate(st, eff) ==
  Sched(IF eff \in Range(st.q) THEN st.q ELSE Append(st.q, eff),
        TRUE,
        IF st.b THEN st.m ELSE st.m + 1)

\* subscribers.forEach(scheduleUpdate), in the Set's insertion order
RECURSIVE forEachSchedule(_, _)
forEachSchedule(ss, st) ==
  IF ss = <<>> THEN st
  ELSE forEachSchedule(Tail(ss), scheduleUpdate(st, Head(ss)))

SchedNow == Sched(effectQueue, isBatching, microtasks)

\* the flush loop takes every entry out of the queue and calls none
FlushSkipsAll(eff) == TRUE

\* The flush loop's two guards: eff.disposed, then eff.running.
FlushSkips(eff) == disposed[eff] \/ running[eff]

\* catch (e) { console.error(..., e.stack || e) }: reading e.stack of null
\* or undefined throws a TypeError out of the handler.
CatchLog(e) == IF e = "nullish" THEN "error" ELSE None

\* ------------------------------------------------------------- tracking
\* every write notifies, whatever the stored value
DiffersAlways(new, old) == TRUE

\* newValue !== value
Differs(new, old) == new # old

\* every recomputation notifies, whatever the cached value
MemoChangedAlways(m, v) == TRUE

\* !initialized || newValue !== value
MemoChanged(m, v) == ~initialized[m] \/ Differs(v, mvalue[m])

\* subscribers.add(currentEffect)
TrackSubs(sb, s, ce) ==
  IF ce # None THEN [sb EXCEPT ![s] = SetAdd(@, ce)] ELSE sb

\* the read is not recorded in the dependencies
TrackDepsNever(dp, s, ce) == dp

\* currentEffect.dependencies.add(subscribers)
TrackDeps(dp, s, ce) ==
  IF ce # None THEN [dp EXCEPT ![ce] = @ \cup {s}] ELSE dp

\* effect.dependencies.forEach((depSet) => depSet.delete(effect))
RemoveEdges(sb, c, dset) ==
  [s \in Srcs |-> IF s \in dset THEN SetDelete(sb[s], c) ELSE sb[s]]

\* the list visited from its last element
CleanupAtReversed(list, i) == list[Len(list) + 1 - i]

\* cleanups.forEach visits the list from its first element
CleanupAt(list, i) == list[i]

\* currentEffect.cleanups.push(fn)
PushCleanup(list, fn) == Append(list, fn)

\* ----------------------------------------------------------------- Init
\* the root whose fn(dispose) is the innermost one in progress, if any
RECURSIVE RootIn(_)
RootIn(st) ==
  IF st = <<>> THEN None
  ELSE IF st[Len(st)].k = "root" THEN st[Len(st)].c
  ELSE RootIn(SubSeq(st, 1, Len(st) - 1))

EnclosingRoot == RootIn(stack)

\* entry i of the cleanup list of c is called once more
Called(cv, c, i) == [cv EXCEPT ![c][i] = Min(@ + 1, 2)]

\* a flush callback ends: the disposals that preceded it are behind it
FlushedStage == [c \in Ctxs |-> IF dstage[c] = "wait" THEN "done" ELSE dstage[c]]

NoCalls == [c \in Ctxs |-> 0]
NoVals == [s \in Sigs |-> 0]

\* nothing read yet: the function with the empty domain
NoSeen == [s \in {} |-> 0]

Init ==
  /\ value = [s \in Sigs |-> 0]
  /\ subs = [s \in Srcs |-> <<>>]
  /\ mvalue = [m \in Memos |-> Undefined]
  /\ initialized = [m \in Memos |-> FALSE]
  /\ deps = [c \in Ctxs |-> {}]
  /\ cleanups = [c \in Ctxs |-> <<>>]
  /\ disposed = [c \in Ctxs |-> FALSE]
  /\ running = [c \in Ctxs |-> FALSE]
  /\ effectQueue = <<>>
  /\ isBatching = FALSE
  /\ microtasks = 0
  /\ currentEffect = None
  /\ stack = <<>>
  /\ exc = None
  /\ status = [c \in Ctxs |-> "none"]
  /\ fuel = MaxFuel
  /\ flushCalls = NoCalls
  /\ flushBodies = NoCalls
  /\ turnVal = NoVals
  /\ flushWritten = {}
  /\ flushThrew = {}
  /\ bodyReads = [c \in Ctxs |-> {}]
  /\ regs = [c \in Ctxs |-> <<>>]
  /\ invoked = [c \in Ctxs |-> <<>>]
  /\ dcalled = [c \in Ctxs |-> FALSE]
  /\ selfTrig = [c \in Ctxs |-> FALSE]
  /\ lastRet = [m \in Memos |-> Undefined]
  /\ ignored = {}
  /\ owner = [c \in Comps |-> None]
  /\ cinv = [c \in Ctxs |-> <<>>]
  /\ dstage = [c \in Ctxs |-> "no"]
  /\ seen = [c \in Ctxs |-> NoSeen]

\* ------------------------------------------------------- signal accesses
\* signal(): the getter call.  Outside a computation it changes nothing.
SignalRead(s) ==
  /\ InBody /\ fuel > 0
  /\ subs' = TrackSubs(subs, s, currentEffect)
  /\ deps' = TrackDeps(deps, s, currentEffect)
  /\ fuel' = fuel - 1
  /\ bodyReads' = [bodyReads EXCEPT ![Top.c] = @ \cup {s}]
  /\ UNCHANGED <<value, mvalue, initialized, cleanups, disposed, running,
                 effectQueue, isBatching, microtasks, currentEffect, stack,
                 exc, status>>
  /\ UNCHANGED <<flushObs, regs, invoked, otherObs>>
  /\ UNCHANGED lifeObs

\* signal(v): the setter call, followed by the tracking code that the
\* function runs on every call.
SignalWrite(s, v) ==
  /\ UserCode /\ fuel > 0
  /\ LET changed == Differs(v, value[s])
         st == IF changed THEN forEachSchedule(subs[s], SchedNow)
               ELSE SchedNow
     IN /\ value' = IF changed THEN [value EXCEPT ![s] = v] ELSE value
        /\ effectQueue' = st.q
        /\ isBatching' = st.b
        /\ microtasks' = st.m
        /\ flushWritten' = IF InFlush /\ changed THEN flushWritten \cup {s}
                           ELSE flushWritten
        /\ selfTrig' = IF InBody /\ changed /\ running[Top.c]
                          /\ Top.c \in Range(subs[s])
                       THEN [selfTrig EXCEPT ![Top.c] = TRUE] ELSE selfTrig
        /\ ignored' = IF v = value[s] /\ subs[s] # <<>>
                      THEN ignored \cup {s} ELSE ignored
  /\ subs' = TrackSubs(subs, s, currentEffect)
  /\ deps' = TrackDeps(deps, s, currentEffect)
  /\ fuel' = fuel - 1
  /\ UNCHANGED <<mvalue, initialized, cleanups, disposed, running,
                 currentEffect, stack, exc, status>>
  /\ UNCHANGED <<flushCalls, flushBodies, turnVal, flushThrew, runObs,
                 dcalled, lastRet>>
  /\ UNCHANGED lifeObs

\* memoGetter(): available once createMemo has returned it.
MemoRead(m) ==
  /\ InBody /\ fuel > 0
  /\ status[m] = "live"
  /\ subs' = TrackSubs(subs, m, currentEffect)
  /\ deps' = TrackDeps(deps, m, currentEffect)
  /\ fuel' = fuel - 1
  /\ bodyReads' = [bodyReads EXCEPT ![Top.c] = @ \cup {m}]
  /\ UNCHANGED <<value, mvalue, initialized, cleanups, disposed, running,
                 effectQueue, isBatching, microtasks, currentEffect, stack,
                 exc, status>>
  /\ UNCHANGED <<flushObs, regs, invoked, otherObs>>
  /\ UNCHANGED lifeObs

\* onCleanup(fn) with a computation as the ambient context.
OnCleanup(kind) ==
  /\ InBody /\ fuel > 0
  /\ cleanups' = IF currentEffect # None
                 THEN [cleanups EXCEPT ![currentEffect] = PushCleanup(@, kind)]
                 ELSE cleanups
  /\ fuel' = fuel - 1
  /\ regs' = [regs EXCEPT ![Top.c] = Append(@, kind)]
  /\ UNCHANGED <<value, subs, mvalue, initialized, deps, disposed, running,
                 effectQueue, isBatching, microtasks, currentEffect, stack,
                 exc, status>>
  /\ UNCHANGED <<flushObs, bodyReads, invoked, otherObs>>
  /\ cinv' = IF currentEffect # None
             THEN [cinv EXCEPT ![currentEffect] = Append(@, 0)]
             ELSE cinv
  /\ UNCHANGED <<owner, dstage, seen>>

\* ------------------------------------------------------------- creation
\* createEffect(fn) up to the call effect() of the initial run.
CreateEffect(e) ==
  /\ UserCode /\ fuel > 0
  /\ status[e] = "none"
  /\ \A i, j \in 1..Len(EffectSeq) :
        i < j /\ EffectSeq[j] = e => status[EffectSeq[i]] # "none"
  /\ status' = [status EXCEPT ![e] = "creating"]
  /\ stack' = Append(stack, Frame("run", e, "cleanup", 1, None, <<>>, TRUE))
  /\ fuel' = fuel - 1
  /\ UNCHANGED <<value, subs, mvalue, initialized, deps, cleanups, disposed,
                 running, effectQueue, isBatching, microtasks, currentEffect,
                 exc>>
  /\ UNCHANGED <<flushObs, runObs, otherObs>>
  /\ owner' = [owner EXCEPT ![e] = EnclosingRoot]
  /\ UNCHANGED <<cinv, dstage, seen>>

\* createMemo(fn) up to the call memoEffect() of the initial computation.
CreateMemo(m) ==
  /\ UserCode /\ fuel > 0
  /\ status[m] = "none"
  /\ status' = [status EXCEPT ![m] = "creating"]
  /\ stack' = Append(stack, Frame("run", m, "cleanup", 1, None, <<>>, TRUE))
  /\ fuel' = fuel - 1
  /\ UNCHANGED <<value, subs, mvalue, initialized, deps, cleanups, disposed,
                 running, effectQueue, isBatching, microtasks, currentEffect,
                 exc>>
  /\ UNCHANGED <<flushObs, runObs, otherObs>>
  /\ owner' = [owner EXCEPT ![m] = EnclosingRoot]
  /\ UNCHANGED <<cinv, dstage, seen>>

\* --------------------------------------------------- running a computation
\* One call c() of a cleanup callback, made by the frame f.  The result is
\* the new stack, the disposed flags and the value thrown.  A callback
\* named by an effect calls that effect's disposer.
InvokeCleanup(f) ==
  LET kind == CleanupAt(cleanups[f.c], f.i)
      next == ReplaceTop([f EXCEPT !.i = @ + 1])
  IN IF kind = "throw"
     THEN [stack |-> stack, disposed |-> disposed, exc |-> "error"]
     ELSE IF kind \in Effects /\ status[kind] = "live" /\ ~disposed[kind]
     THEN [stack |-> Append(next, Frame("dispose", kind, "", 1, None, <<>>, FALSE)),
           disposed |-> [disposed EXCEPT ![kind] = TRUE],
           exc |-> None]
     ELSE [stack |-> next, disposed |-> disposed, exc |-> None]

\* the disposer calls a cleanup callback makes
CleanupCalls(f) ==
  LET kind == CleanupAt(cleanups[f.c], f.i)
  IN IF kind \in Effects /\ status[kind] = "live"
     THEN [dcalled EXCEPT ![kind] = TRUE] ELSE dcalled

\* effect.cleanups.forEach((c) => c()) at the start of effect() / memoEffect()
RunCleanup ==
  /\ exc = None /\ stack # <<>>
  /\ Top.k = "run" /\ Top.ph = "cleanup"
  /\ Top.i <= Len(cleanups[Top.c])
  /\ LET r == InvokeCleanup(Top)
     IN /\ stack' = r.stack
        /\ disposed' = r.disposed
        /\ exc' = r.exc
  /\ invoked' = [invoked EXCEPT ![Top.c] = Append(@, CleanupAt(cleanups[Top.c], Top.i))]
  /\ dcalled' = CleanupCalls(Top)
  /\ UNCHANGED <<value, subs, mvalue, initialized, deps, cleanups, running,
                 effectQueue, isBatching, microtasks, currentEffect, status,
                 fuel>>
  /\ UNCHANGED <<flushObs, bodyReads, regs, selfTrig, lastRet, ignored>>
  /\ cinv' = Called(cinv, Top.c, Top.i)
  /\ UNCHANGED <<owner, dstage, seen>>

\* The rest of the prologue of effect() / memoEffect(): clear the cleanup
\* list, remove every edge, swap the ambient context.  fn() starts.
RunEnter ==
  /\ exc = None /\ stack # <<>>
  /\ Top.k = "run" /\ Top.ph = "cleanup"
  /\ Top.i > Len(cleanups[Top.c])
  /\ LET c == Top.c
     IN /\ cleanups' = [cleanups EXCEPT ![c] = <<>>]
        /\ subs' = RemoveEdges(subs, c, deps[c])
        /\ deps' = [deps EXCEPT ![c] = {}]
        /\ currentEffect' = c
        /\ stack' = ReplaceTop([Top EXCEPT !.ph = "body", !.prev = currentEffect])
        /\ bodyReads' = [bodyReads EXCEPT ![c] = {}]
        /\ regs' = [regs EXCEPT ![c] = <<>>]
        /\ invoked' = [invoked EXCEPT ![c] = <<>>]
        /\ flushBodies' = IF Top.init THEN flushBodies
                          ELSE [flushBodies EXCEPT ![c] = Min(@ + 1, 2)]
  /\ UNCHANGED <<value, mvalue, initialized, disposed, running, effectQueue,
                 isBatching, microtasks, exc, status, fuel>>
  /\ UNCHANGED <<flushCalls, turnVal, flushWritten, flushThrew, otherObs>>
  /\ cinv' = [cinv EXCEPT ![Top.c] = <<>>]
  /\ seen' = [seen EXCEPT ![Top.c] = NoSeen]
  /\ UNCHANGED <<owner, dstage>>

\* fn() of an effect returns: finally restores the ambient context.  After
\* the initial run createEffect returns the disposer.
Return ==
  /\ InBody
  /\ Top.c \in Effects
  /\ currentEffect' = Restore(Top)
  /\ stack' = Pop
  /\ status' = IF Top.init THEN [status EXCEPT ![Top.c] = "live"] ELSE status
  /\ UNCHANGED <<value, subs, mvalue, initialized, deps, cleanups, disposed,
                 running, effectQueue, isBatching, microtasks, exc, fuel>>
  /\ UNCHANGED <<flushObs, runObs, otherObs>>
  /\ UNCHANGED lifeObs

\* fn() of a memo returns v: compare with the cache, store and notify on a
\* change, then finally restores the ambient context.
MemoReturn(v) ==
  /\ InBody
  /\ Top.c \in Memos
  /\ LET m == Top.c
         changed == MemoChanged(m, v)
         st == IF changed THEN forEachSchedule(subs[m], SchedNow)
               ELSE SchedNow
     IN /\ mvalue' = IF changed THEN [mvalue EXCEPT ![m] = v] ELSE mvalue
        /\ initialized' = IF changed THEN [initialized EXCEPT ![m] = TRUE]
                          ELSE initialized
        /\ effectQueue' = st.q
        /\ isBatching' = st.b
        /\ microtasks' = st.m
        /\ status' = IF Top.init THEN [status EXCEPT ![m] = "live"] ELSE status
        /\ lastRet' = [lastRet EXCEPT ![m] = v]
  /\ currentEffect' = Restore(Top)
  /\ stack' = Pop
  /\ UNCHANGED <<value, subs, deps, cleanups, disposed, running, exc, fuel>>
  /\ UNCHANGED <<flushObs, runObs, dcalled, selfTrig, ignored>>
  /\ UNCHANGED lifeObs

\* The user's function throws x.
Throw(x) ==
  /\ InBody /\ fuel > 0
  /\ exc' = x
  /\ fuel' = fuel - 1
  /\ UNCHANGED <<value, subs, mvalue, initialized, deps, cleanups, disposed,
                 running, effectQueue, isBatching, microtasks, currentEffect,
                 stack, status>>
  /\ UNCHANGED <<flushObs, runObs, otherObs>>
  /\ UNCHANGED lifeObs

\* An exception leaves the innermost frame.  Only the body of effect() /
\* memoEffect() is inside try/finally; the cleanup forEach of a re-run and
\* the disposer have no handler.  An initial run that throws makes
\* createEffect / createMemo throw: nothing is returned to the caller.
Unwind ==
  /\ exc # None /\ stack # <<>>
  /\ Top.k \in {"run", "dispose"}
  /\ currentEffect' = IF Top.k = "run" /\ Top.ph = "body" THEN Restore(Top)
                      ELSE currentEffect
  /\ status' = IF Top.k = "run" /\ Top.init
               THEN [status EXCEPT ![Top.c] = "failed"] ELSE status
  /\ stack' = Pop
  /\ UNCHANGED <<value, subs, mvalue, initialized, deps, cleanups, disposed,
                 running, effectQueue, isBatching, microtasks, exc, fuel>>
  /\ UNCHANGED <<flushObs, runObs, otherObs>>
  /\ UNCHANGED lifeObs

\* An exception reaches the top of a synchronous turn or of a microtask:
\* the host reports it.
Uncaught ==
  /\ exc # None /\ stack = <<>>
  /\ exc' = None
  /\ UNCHANGED <<value, subs, mvalue, initialized, deps, cleanups, disposed,
                 running, effectQueue, isBatching, microtasks, currentEffect,
                 stack, status, fuel>>
  /\ UNCHANGED <<flushObs, runObs, otherObs>>
  /\ UNCHANGED lifeObs

\* ------------------------------------------------------------- disposer
\* The function createEffect returns, up to its cleanup forEach.
CallDisposer(d) ==
  /\ UserCode /\ fuel > 0
  /\ d \in Effects /\ status[d] = "live"
  /\ IF disposed[d]
     THEN UNCHANGED <<disposed, stack>>
     ELSE /\ disposed' = [disposed EXCEPT ![d] = TRUE]
          /\ stack' = Append(stack, Frame("dispose", d, "", 1, None, <<>>, FALSE))
  /\ fuel' = fuel - 1
  /\ dcalled' = [dcalled EXCEPT ![d] = TRUE]
  /\ UNCHANGED <<value, subs, mvalue, initialized, deps, cleanups, running,
                 effectQueue, isBatching, microtasks, currentEffect, exc,
                 status>>
  /\ UNCHANGED <<flushObs, runObs, selfTrig, lastRet, ignored>>
  /\ UNCHANGED lifeObs

\* effect.cleanups.forEach((c) => c()) of the disposer
DisposeCleanup ==
  /\ exc = None /\ stack # <<>>
  /\ Top.k = "dispose"
  /\ Top.i <= Len(cleanups[Top.c])
  /\ LET r == InvokeCleanup(Top)
     IN /\ stack' = r.stack
        /\ disposed' = r.disposed
        /\ exc' = r.exc
  /\ dcalled' = CleanupCalls(Top)
  /\ UNCHANGED <<value, subs, mvalue, initialized, deps, cleanups, running,
                 effectQueue, isBatching, microtasks, currentEffect, status,
                 fuel>>
  /\ UNCHANGED <<flushObs, runObs, selfTrig, lastRet, ignored>>
  /\ cinv' = Called(cinv, Top.c, Top.i)
  /\ UNCHANGED <<owner, dstage, seen>>

\* The rest of the disposer: remove every edge, leave the pending queue.
DisposeFinish ==
  /\ exc = None /\ stack # <<>>
  /\ Top.k = "dispose"
  /\ Top.i > Len(cleanups[Top.c])
  /\ LET c == Top.c
     IN /\ subs' = RemoveEdges(subs, c, deps[c])
        /\ deps' = [deps EXCEPT ![c] = {}]
        /\ effectQueue' = SetDelete(effectQueue, c)
  /\ stack' = Pop
  /\ UNCHANGED <<value, mvalue, initialized, cleanups, disposed, running,
                 isBatching, microtasks, currentEffect, exc, status, fuel>>
  /\ UNCHANGED <<flushObs, runObs, otherObs>>
  /\ UNCHANGED lifeObs

\* ----------------------------------------------------------------- root
\* createRoot(fn) up to the call fn(dispose): the context object becomes
\* the ambient context.
CreateRoot(r) ==
  /\ UserCode /\ fuel > 0
  /\ status[r] = "none"
  /\ status' = [status EXCEPT ![r] = "creating"]
  /\ stack' = Append(stack, Frame("root", r, "body", 1, currentEffect, <<>>, TRUE))
  /\ currentEffect' = r
  /\ fuel' = fuel - 1
  /\ UNCHANGED <<value, subs, mvalue, initialized, deps, cleanups, disposed,
                 running, effectQueue, isBatching, microtasks, exc>>
  /\ UNCHANGED <<flushObs, runObs, otherObs, lifeObs>>

\* fn(dispose) returns: finally restores the ambient context and createRoot
\* returns dispose.
RootReturn ==
  /\ InBody
  /\ Top.k = "root"
  /\ currentEffect' = Restore(Top)
  /\ stack' = Pop
  /\ status' = [status EXCEPT ![Top.c] = "live"]
  /\ UNCHANGED <<value, subs, mvalue, initialized, deps, cleanups, disposed,
                 running, effectQueue, isBatching, microtasks, exc, fuel>>
  /\ UNCHANGED <<flushObs, runObs, otherObs, lifeObs>>

\* fn(dispose) throws: catch logs e.stack || e, finally restores the
\* ambient context.  When the handler itself throws, createRoot throws and
\* returns nothing.
RootCatch ==
  /\ exc # None /\ stack # <<>>
  /\ Top.k = "root"
  /\ exc' = CatchLog(exc)
  /\ currentEffect' = Restore(Top)
  /\ stack' = Pop
  /\ status' = [status EXCEPT ![Top.c] = IF CatchLog(exc) = None THEN "live"
                                         ELSE "failed"]
  /\ UNCHANGED <<value, subs, mvalue, initialized, deps, cleanups, disposed,
                 running, effectQueue, isBatching, microtasks, fuel>>
  /\ UNCHANGED <<flushObs, runObs, otherObs, lifeObs>>

\* dispose() of a root, up to its cleanup forEach.  fn receives dispose as
\* its argument, so user code can call it from the setup on.
CallRootDisposer(r) ==
  /\ UserCode /\ fuel > 0
  /\ r \in Roots /\ status[r] # "none"
  /\ IF disposed[r]
     THEN UNCHANGED <<disposed, stack>>
     ELSE /\ disposed' = [disposed EXCEPT ![r] = TRUE]
          /\ stack' = Append(stack, Frame("rdispose", r, "", 1, None, <<>>, FALSE))
  /\ fuel' = fuel - 1
  /\ dcalled' = [dcalled EXCEPT ![r] = TRUE]
  /\ UNCHANGED <<value, subs, mvalue, initialized, deps, cleanups, running,
                 effectQueue, isBatching, microtasks, currentEffect, exc,
                 status>>
  /\ UNCHANGED <<flushObs, runObs, selfTrig, lastRet, ignored, lifeObs>>

\* a cleanup that throws ends the loop
RootLoopStop(f) == [f EXCEPT !.i = Len(cleanups[f.c]) + 1]

\* catch (e) { console.error(..., e) } inside the forEach callback: the
\* loop goes on with the next cleanup
RootLoopNext(f) == [f EXCEPT !.i = @ + 1]

\* rootCleanup.forEach((c) => { try { c() } catch (e) { log } }): one call.
\* A cleanup that throws is logged and the loop goes on.
RootDisposeCleanup ==
  /\ exc = None /\ stack # <<>>
  /\ Top.k = "rdispose"
  /\ Top.i <= Len(cleanups[Top.c])
  /\ IF CleanupAt(cleanups[Top.c], Top.i) = "throw"
     THEN /\ stack' = ReplaceTop(RootLoopNext(Top))
          /\ UNCHANGED <<disposed, exc>>
     ELSE LET r == InvokeCleanup(Top)
          IN /\ stack' = r.stack
             /\ disposed' = r.disposed
             /\ exc' = r.exc
  /\ invoked' = [invoked EXCEPT ![Top.c] = Append(@, CleanupAt(cleanups[Top.c], Top.i))]
  /\ dcalled' = CleanupCalls(Top)
  /\ cinv' = Called(cinv, Top.c, Top.i)
  /\ UNCHANGED <<value, subs, mvalue, initialized, deps, cleanups, running,
                 effectQueue, isBatching, microtasks, currentEffect, status,
                 fuel>>
  /\ UNCHANGED <<flushObs, bodyReads, regs, selfTrig, lastRet, ignored>>
  /\ UNCHANGED <<owner, dstage, seen>>

\* An exception of a disposer called by a root cleanup reaches the catch
\* of the forEach callback: it is logged and the loop goes on.
RootDisposeCatch ==
  /\ exc # None /\ stack # <<>>
  /\ Top.k = "rdispose"
  /\ exc' = None
  /\ UNCHANGED <<value, subs, mvalue, initialized, deps, cleanups, disposed,
                 running, effectQueue, isBatching, microtasks, currentEffect,
                 stack, status, fuel>>
  /\ UNCHANGED <<flushObs, runObs, otherObs, lifeObs>>

\* The rest of dispose(): rootCleanup.length = 0.
RootDisposeFinish ==
  /\ exc = None /\ stack # <<>>
  /\ Top.k = "rdispose"
  /\ Top.i > Len(cleanups[Top.c])
  /\ cleanups' = [cleanups EXCEPT ![Top.c] = <<>>]
  /\ cinv' = [cinv EXCEPT ![Top.c] = <<>>]
  /\ stack' = Pop
  /\ UNCHANGED <<value, subs, mvalue, initialized, deps, disposed, running,
                 effectQueue, isBatching, microtasks, currentEffect, exc,
                 status, fuel>>
  /\ UNCHANGED <<flushObs, runObs, otherObs>>
  /\ UNCHANGED <<owner, dstage, seen>>

\* ---------------------------------------------------------------- flush
\* The callback given to queueMicrotask starts: it runs when the call
\* stack is empty.  It clears isBatching and snapshots the queue.
FlushBegin ==
  /\ AtTop
  /\ microtasks > 0
  /\ microtasks' = microtasks - 1
  /\ isBatching' = FALSE
  /\ stack' = <<Frame("flush", None, "", 1, None, effectQueue, FALSE)>>
  /\ turnVal' = value
  /\ ignored' = {}
  /\ UNCHANGED <<value, subs, mvalue, initialized, deps, cleanups, disposed,
                 running, effectQueue, currentEffect, exc, status, fuel>>
  /\ UNCHANGED <<flushCalls, flushBodies, flushWritten, flushThrew, runObs,
                 dcalled, selfTrig, lastRet>>
  /\ dstage' = [c \in Ctxs |-> IF dcalled[c] /\ dstage[c] = "no"
                                THEN "wait" ELSE dstage[c]]
  /\ UNCHANGED <<owner, cinv, seen>>

\* One iteration of the flush loop up to the call eff().
FlushNext ==
  /\ exc = None /\ stack # <<>>
  /\ Top.k = "flush" /\ Top.c = None
  /\ Top.i <= Len(Top.snap)
  /\ LET eff == Top.snap[Top.i]
         rest == [Top EXCEPT !.i = @ + 1]
     IN /\ effectQueue' = SetDelete(effectQueue, eff)
        /\ selfTrig' = [selfTrig EXCEPT ![eff] = FALSE]
        /\ IF FlushSkips(eff)
           THEN /\ stack' = ReplaceTop(rest)
                /\ UNCHANGED <<running, flushCalls, invoked, exc>>
           ELSE /\ running' = [running EXCEPT ![eff] = TRUE]
                /\ flushCalls' = [flushCalls EXCEPT ![eff] = Min(@ + 1, 2)]
                /\ invoked' = [invoked EXCEPT ![eff] = <<>>]
                /\ IF eff \in Roots
                   THEN \* a root context is a plain object: the call
                        \* eff() throws a TypeError
                        /\ stack' = ReplaceTop([rest EXCEPT !.c = eff])
                        /\ exc' = "error"
                   ELSE /\ stack' = Append(ReplaceTop([rest EXCEPT !.c = eff]),
                                           Frame("run", eff, "cleanup", 1, None, <<>>, FALSE))
                        /\ exc' = exc
  /\ UNCHANGED <<value, subs, mvalue, initialized, deps, cleanups, disposed,
                 isBatching, microtasks, currentEffect, status, fuel>>
  /\ UNCHANGED <<flushBodies, turnVal, flushWritten, flushThrew, bodyReads,
                 regs, dcalled, lastRet, ignored>>
  /\ UNCHANGED lifeObs

\* The observations of a flush are dropped when its callback ends.
ResetFlushObs ==
  /\ flushCalls' = NoCalls
  /\ flushBodies' = NoCalls
  /\ turnVal' = NoVals
  /\ flushWritten' = {}
  /\ flushThrew' = {}

\* eff() has returned or thrown: catch logs, finally clears running.  An
\* exception thrown by the handler itself leaves the loop and the callback.
FlushAfter ==
  /\ stack # <<>>
  /\ Top.k = "flush" /\ Top.c # None
  /\ running' = [running EXCEPT ![Top.c] = FALSE]
  /\ LET out == IF exc = None THEN None ELSE CatchLog(exc)
     IN /\ exc' = out
        /\ IF out = None
           THEN /\ stack' = ReplaceTop([Top EXCEPT !.c = None])
                /\ flushThrew' = IF exc = None THEN flushThrew
                                 ELSE flushThrew \cup {Top.c}
                /\ UNCHANGED <<flushCalls, flushBodies, turnVal, flushWritten>>
           ELSE /\ stack' = Pop
                /\ ResetFlushObs
  /\ UNCHANGED <<value, subs, mvalue, initialized, deps, cleanups, disposed,
                 effectQueue, isBatching, microtasks, currentEffect, status,
                 fuel>>
  /\ UNCHANGED <<runObs, otherObs>>
  /\ dstage' = IF exc # None /\ CatchLog(exc) # None THEN FlushedStage
               ELSE dstage
  /\ UNCHANGED <<owner, cinv, seen>>

\* The snapshot is exhausted: the callback returns.
FlushEnd ==
  /\ exc = None /\ stack # <<>>
  /\ Top.k = "flush" /\ Top.c = None
  /\ Top.i > Len(Top.snap)
  /\ stack' = Pop
  /\ ResetFlushObs
  /\ UNCHANGED <<value, subs, mvalue, initialized, deps, cleanups, disposed,
                 running, effectQueue, isBatching, microtasks, currentEffect,
                 exc, status, fuel>>
  /\ UNCHANGED <<runObs, otherObs>>
  /\ dstage' = FlushedStage
  /\ UNCHANGED <<owner, cinv, seen>>

\* ------------------------------------------------------- specifications
\* Two effects over two signals: every operation of createSignal,
\* createEffect, onCleanup, the disposer and the scheduler.
Next ==
  \/ \E s \in Sigs : SignalRead(s)
  \/ \E s \in Sigs, v \in Vals : SignalWrite(s, v)
  \/ \E k \in CleanupKinds : OnCleanup(k)
  \/ \E e \in Effects : CreateEffect(e)
  \/ RunCleanup
  \/ RunEnter
  \/ Return
  \/ \E x \in Thrown : Throw(x)
  \/ Unwind
  \/ Uncaught
  \/ \E d \in Effects : CallDisposer(d)
  \/ DisposeCleanup
  \/ DisposeFinish
  \/ FlushBegin
  \/ FlushNext
  \/ FlushAfter
  \/ FlushEnd

Spec == Init /\ [][Next]_vars

\* One memo and one effect over two signals: the operations above and
\* those of createMemo.
NextMemo ==
  \/ \E s \in Sigs : SignalRead(s)
  \/ \E s \in Sigs, v \in Vals : SignalWrite(s, v)
  \/ \E m \in Memos : MemoRead(m)
  \/ \E k \in {"ok", "throw", EffectSeq[1]} : OnCleanup(k)
  \/ CreateEffect(EffectSeq[1])
  \/ \E m \in Memos : CreateMemo(m)
  \/ RunCleanup
  \/ RunEnter
  \/ Return
  \/ \E v \in Vals : MemoReturn(v)
  \/ \E x \in Thrown : Throw(x)
  \/ Unwind
  \/ Uncaught
  \/ CallDisposer(EffectSeq[1])
  \/ DisposeCleanup
  \/ DisposeFinish
  \/ FlushBegin
  \/ FlushNext
  \/ FlushAfter
  \/ FlushEnd

SpecMemo == Init /\ [][NextMemo]_vars

\* One root and one effect over one signal: the operations of createRoot
\* and its dispose, with those of createSignal, createEffect, onCleanup
\* and the scheduler.
NextRoot ==
  \/ SignalRead("a")
  \/ \E v \in Vals : SignalWrite("a", v)
  \/ \E k \in {"ok", "throw", EffectSeq[1]} : OnCleanup(k)
  \/ CreateEffect(EffectSeq[1])
  \/ \E r \in Roots : CreateRoot(r)
  \/ RunCleanup
  \/ RunEnter
  \/ Return
  \/ RootReturn
  \/ \E x \in Thrown : Throw(x)
  \/ Unwind
  \/ RootCatch
  \/ Uncaught
  \/ CallDisposer(EffectSeq[1])
  \/ \E r \in Roots : CallRootDisposer(r)
  \/ DisposeCleanup
  \/ DisposeFinish
  \/ RootDisposeCleanup
  \/ RootDisposeCatch
  \/ RootDisposeFinish
  \/ FlushBegin
  \/ FlushNext
  \/ FlushAfter
  \/ FlushEnd

SpecRoot == Init /\ [][NextRoot]_vars

\* ---------------------------------------------------------------- claims
\* the sources whose subscriber Set holds c: a change of any of them
\* hands c to scheduleUpdate
Triggers(c) == {s \in Srcs : c \in Range(subs[s])}

\* a call of effect() / memoEffect() of c, or of its disposer, is in progress
OnStack(c) ==
  \E i \in 1..Len(stack) : stack[i].k \in {"run", "dispose"} /\ stack[i].c = c

\* this step is the start of fn() of c: the prologue of its run is over
EntersBody(c) ==
  /\ stack # <<>> /\ Top.k = "run" /\ Top.c = c /\ Top.ph = "cleanup"
  /\ Len(stack') = Len(stack)
  /\ stack'[Len(stack)].ph = "body"

\* this step is the flush loop taking c from its snapshot
FlushTakes(c) ==
  /\ exc = None /\ stack # <<>>
  /\ Top.k = "flush" /\ Top.c = None
  /\ Top.i <= Len(Top.snap) /\ Top.snap[Top.i] = c
  /\ stack' # stack

\* this step is the end of the flush callback, by return or by exception
FlushEnds == InFlush /\ stack' = <<>>

\* C1: batching.  No frame is started inside a write call; a flush calls a
\* computation at most once; when the flush that follows the writes ends,
\* every computation of its snapshot that is not disposed has been called
\* exactly once; and a value read by such a re-run, of a signal not written
\* during the flush, is the value the signal had when the turn ended.
C1_Batching ==
  /\ [](\A c \in Comps : flushCalls[c] <= 1)
  /\ [][ /\ (\E s \in Sigs, v \in Vals : SignalWrite(s, v)) => stack' = stack
         /\ FlushEnds =>
              \A c \in Range(stack[1].snap) : ~disposed[c] => flushCalls[c] = 1
         /\ \A s \in Sigs : SignalRead(s) /\ InRerun /\ s \notin flushWritten
              => value[s] = turnVal[s] ]_vars

\* C2: a write of the stored value changes neither the value nor the
\* pending queue, schedules no flush and starts no computation.
C2_EqualWriteIgnored ==
  [][ \A s \in Sigs : SignalWrite(s, value[s]) =>
        UNCHANGED <<value, effectQueue, isBatching, microtasks, stack,
                    running, flushCalls, flushBodies>> ]_vars

\* a signal with a subscriber has received a write of its own value
C2_Witness == ignored # {} /\ effectQueue = <<>> /\ microtasks = 0

\* C3: between its runs, the signals that can trigger an effect that is
\* not disposed are exactly the signals its latest run read.
C3_DependencyRebuild ==
  \A e \in Effects :
    status[e] \in {"live", "failed"} /\ ~disposed[e] /\ ~OnStack(e)
      => Triggers(e) = bodyReads[e]

\* C4: once the disposer of an effect has been called, fn() of the effect
\* never starts again; a second call of the disposer changes no state.
C4_DisposalFinality ==
  [][ /\ \A e \in Effects : dcalled[e] => ~EntersBody(e)
      /\ \A e \in Effects : dcalled[e] /\ CallDisposer(e) => UNCHANGED prog
    ]_vars

\* C5: a computation that was enqueued by a write of its own body, made
\* while its running flag was set, is skipped when the flush takes it.
C5_SelfTriggerSkipped ==
  [][ \A c \in Comps : FlushTakes(c) /\ selfTrig[c] => ~running'[c] ]_vars

\* C6: when fn() of an effect starts, the prologue of that run has called
\* the cleanups the previous fn() registered, each once, in the order of
\* their registration; and no edge to the effect is recorded while its
\* prologue is in progress.
InPrologue(c) ==
  \E i \in 1..Len(stack) :
    stack[i].k = "run" /\ stack[i].c = c /\ stack[i].ph = "cleanup"

C6_CleanupOrdering ==
  [][ \A e \in Effects :
        /\ EntersBody(e) => invoked[e] = regs[e]
        /\ InPrologue(e) => Triggers(e)' \subseteq Triggers(e) ]_vars

\* the prologue of a re-run has called two different cleanups
C6_Witness ==
  \E e \in Effects :
    /\ stack # <<>> /\ Top.k = "run" /\ Top.c = e /\ Top.ph = "cleanup"
    /\ ~Top.init
    /\ Top.i > Len(cleanups[e])
    /\ Len(invoked[e]) = 2 /\ invoked[e][1] # invoked[e][2]

\* C7: the getter never starts fn() and returns what the latest completed
\* fn() returned; a flush starts fn() of a memo at most once, and exactly
\* once when the memo was pending for that flush.
C7_MemoCaching ==
  /\ [](\A m \in Memos : status[m] = "live" => mvalue[m] = lastRet[m])
  /\ [](\A m \in Memos : flushBodies[m] <= 1)
  /\ [][ /\ (\E m \in Memos : MemoRead(m)) =>
              stack' = stack /\ mvalue' = mvalue /\ flushBodies' = flushBodies
         /\ FlushEnds =>
              \A m \in Range(stack[1].snap) \cap Memos : flushBodies[m] = 1
       ]_vars

\* this step is fn() of the memo m returning, on a recomputation
Recomputes(m) ==
  /\ InBody /\ Top.c = m /\ initialized[m]
  /\ stack' = Pop /\ exc' = None

C9_FlushIsolation ==
  [][ FlushEnds =>
        /\ exc' = None
        /\ \A c \in Range(stack[1].snap) : ~disposed[c] => flushCalls[c] >= 1
    ]_vars

\* C10: createEffect and createMemo return to their caller: the initial
\* run never leaves them by an exception.
C10_InitialRunIsolated ==
  \A c \in Comps : status[c] # "failed"

\* this step is the return of dispose() of the root r
RootDisposeEnds(r) ==
  /\ exc = None /\ stack # <<>> /\ Top.k = "rdispose" /\ Top.c = r
  /\ stack' = Pop

\* dispose() of the root r has been called and has returned
RootDisposed(r) ==
  /\ dcalled[r]
  /\ \A i \in 1..Len(stack) : ~(stack[i].k = "rdispose" /\ stack[i].c = r)

\* C11: when dispose() of a root returns, no computation created during
\* the root's setup is left in a subscriber Set, and from then on no flush
\* starts fn() of such a computation.
C11_RootDisposalTransitive ==
  [][ \A r \in Roots, c \in Comps :
        /\ RootDisposeEnds(r) /\ owner[c] = r /\ status[c] = "live"
             => Triggers(c)' = {}
        /\ RootDisposed(r) /\ owner[c] = r
             => ~(EntersBody(c) /\ ~Top.init) ]_vars

\* fn(dispose) of the root r has thrown: the exception is at createRoot's try
SetupThrows(r) ==
  exc # None /\ stack # <<>> /\ Top.k = "root" /\ Top.c = r

\* C12: when the setup function of a root throws, createRoot swallows the
\* exception, restores the ambient context it found, keeps the cleanups
\* registered so far for the disposer, and returns the disposer.
C12_RootAlwaysReturnsDisposer ==
  [][ \A r \in Roots : SetupThrows(r) =>
        /\ exc' = None
        /\ currentEffect' = Top.prev
        /\ cleanups'[r] = cleanups[r]
        /\ status'[r] = "live" ]_vars

\* C13: when the first dispose() of a root returns it has called the
\* cleanups of the root's list, each once, in the order of the list,
\* whether or not some of them threw, and the list is left empty; a later
\* dispose() calls nothing and changes no state of the program.
C13_RootDispose ==
  [][ \A r \in Roots :
        /\ RootDisposeEnds(r) =>
             /\ invoked[r] = cleanups[r]
             /\ \A i \in 1..Len(cinv[r]) : cinv[r][i] = 1
             /\ cleanups'[r] = <<>>
        /\ dcalled[r] /\ CallRootDisposer(r) =>
             UNCHANGED prog /\ invoked' = invoked ]_vars

\* dispose() of a root is about to return after two calls, the first of a
\* cleanup that threw
C13_Witness ==
  \E r \in Roots :
    /\ stack # <<>> /\ Top.k = "rdispose" /\ Top.c = r /\ exc = None
    /\ Top.i > Len(cleanups[r])
    /\ Len(cleanups[r]) = 2 /\ cleanups[r][1] = "throw" /\ cleanups[r][2] = "ok"
    /\ invoked[r] = cleanups[r]

\* no call of effect() / memoEffect() / fn(dispose) of c, and no call of
\* its disposer, is in progress
Idle(c) == \A i \in 1..Len(stack) : stack[i].c # c

\* C14: no entry of a cleanup list is called twice; when fn() of a re-run
\* starts, every cleanup the previous run registered has been called once;
\* and once a context is disposed and idle, every cleanup registered on it
\* has been called once.
C14_CleanupExactlyOnce ==
  /\ [](\A c \in Ctxs : \A i \in 1..Len(cinv[c]) : cinv[c][i] <= 1)
  /\ [](\A c \in Ctxs : disposed[c] /\ Idle(c) =>
          \A i \in 1..Len(cinv[c]) : cinv[c][i] = 1)
  /\ [][ \A e \in Effects : EntersBody(e) /\ ~Top.init =>
           \A i \in 1..Len(cinv[e]) : cinv[e][i] = 1 ]_vars

\* C15: a root context is in no subscriber Set, has no dependency, is
\* never in the pending queue and is never called by a flush.
C15_RootsNeverTracked ==
  \A r \in Roots :
    /\ \A s \in Srcs : r \notin Range(subs[s])
    /\ deps[r] = {}
    /\ r \notin Range(effectQueue)
    /\ flushCalls[r] = 0

\* C16: a setter call signal(v), with v equal to the stored value or not,
\* adds no computation to a subscriber Set and nothing to a dependency Set.
C16_EdgesOnlyByReads ==
  [][ \A s \in Sigs, v \in Vals : SignalWrite(s, v) =>
        subs' = subs /\ deps' = deps ]_vars

\* C17: once a flush that began after the disposer of a computation was
\* called has ended, the computation is in no subscriber Set.
C17_NoDisposedSubscriber ==
  \A c \in Comps : dstage[c] = "done" => Triggers(c) = {}

\* C18: no step adds a disposed computation to the pending queue, and a
\* write to a signal whose subscribers are all disposed leaves the queue
\* and the scheduler as they were.
C18_DisposedIgnoresEnqueue ==
  /\ [][ \A c \in Comps : disposed[c] /\ c \notin Range(effectQueue)
           => c \notin Range(effectQueue') ]_vars
  /\ [][ \A s \in Sigs, v \in Vals :
           SignalWrite(s, v) /\ (\A c \in Range(subs[s]) : disposed[c])
             => UNCHANGED <<effectQueue, isBatching, microtasks>> ]_vars

\* C19: a computation is in the subscriber Set of a signal or memo exactly
\* when that Set is in the computation's dependencies.
C19_EdgeSymmetry ==
  \A c \in Comps, s \in Srcs : c \in Range(subs[s]) <=> s \in deps[c]

\* during a flush in which a call has thrown, an effect is subscribed to
\* a memo that is itself subscribed to a signal
C19_Witness ==
  \E e \in Effects, m \in Memos, s \in Sigs :
    /\ stack # <<>> /\ Top.k = "flush" /\ flushThrew # {}
    /\ e \in Range(subs[m]) /\ m \in deps[e]
    /\ m \in Range(subs[s]) /\ s \in deps[m]

\* C20: at most one flush callback is scheduled and not yet started,
\* isBatching is true exactly when there is one, and no step taken while
\* isBatching is true schedules a callback.
C20_SingleFlushInFlight ==
  /\ [](microtasks <= 1 /\ (isBatching <=> microtasks = 1))
  /\ [][ isBatching => microtasks' <= microtasks ]_vars

\* two computations are pending behind one scheduled callback
C20_Witness ==
  isBatching /\ microtasks = 1 /\ Len(effectQueue) = 2

\* C21: whenever the call stack is empty (a synchronous turn or a flush
\* callback has ended) and the pending queue is not empty, a flush
\* callback is scheduled; the snapshot of a flush is the queue it found,
\* so a computation enqueued during the flush is not called by it, and a
\* flush calls no computation twice.
C21_NoLostUpdate ==
  /\ [](stack = <<>> /\ effectQueue # <<>> => isBatching /\ microtasks > 0)
  /\ [](\A c \in Comps : flushCalls[c] <= 1)
  /\ [][ \A c \in Comps : FlushTakes(c) /\ c \in Range(effectQueue')
           => ~running'[c] ]_vars

\* the position of x in the insertion-ordered Set q
Pos(q, x) == CHOOSE i \in 1..Len(q) : q[i] = x

\* q2 keeps the members of q it still has in their order, and has its new
\* members after them
KeepsOrder(q, q2) ==
  /\ \A c, d \in Range(q) \cap Range(q2) :
       Pos(q, c) < Pos(q, d) => Pos(q2, c) < Pos(q2, d)
  /\ \A c \in Range(q) \cap Range(q2), d \in Range(q2) \ Range(q) :
       Pos(q2, c) < Pos(q2, d)

\* C22: no step reorders the pending queue (a computation enqueued while
\* pending keeps its place, a new one goes last); a flush iterates over
\* the queue as it found it; and the computations a flush calls are called
\* in the order of that queue.
C22_FlushOrder ==
  [][ /\ KeepsOrder(effectQueue, effectQueue')
      /\ (~InFlush /\ InFlush') => stack'[1].snap = effectQueue
      /\ \A c \in Comps : FlushTakes(c) /\ running'[c] =>
           \A d \in Comps : flushCalls[d] >= 1 =>
             /\ d \in Range(stack[1].snap)
             /\ Pos(stack[1].snap, d) < Pos(stack[1].snap, c) ]_vars

\* a flush has called both effects, the one created last first
C22_Witness ==
  /\ stack # <<>> /\ Top.k = "flush" /\ Top.c = None /\ exc = None
  /\ Top.snap = <<EffectSeq[2], EffectSeq[1]>>
  /\ \A e \in Effects : flushCalls[e] = 1

\* the computation or root whose function is the innermost one executing
\* in the call stack st, None when there is none
RECURSIVE Ambient(_)
Ambient(st) ==
  IF st = <<>> THEN None
  ELSE IF st[Len(st)].k \in {"run", "root"} /\ st[Len(st)].ph = "body"
       THEN st[Len(st)].c
       ELSE Ambient(SubSeq(st, 1, Len(st) - 1))

FlushCatches(c) ==
  exc # None /\ stack # <<>> /\ Top.k = "flush" /\ Top.c = c

\* C24: when fn() of a re-run throws, then once the flush loop has caught
\* the exception the computation, unless it was disposed meanwhile, is
\* subscribed to exactly the sources that run read before the throw, its
\* dependencies are those sources, and its running flag is false.
C24_TruncatedDependencies ==
  [][ \A c \in Comps :
        FlushCatches(c) /\ flushBodies[c] >= 1 /\ ~disposed[c] =>
          /\ Triggers(c)' = bodyReads[c]
          /\ deps'[c] = bodyReads[c]
          /\ ~running'[c] ]_vars

\* ------------------------------------------------- read-only computations
\* A graph whose functions only read: the memo is the product of the two
\* signals, the first effect reads the memo and then signal "a" (a diamond
\* over "a"), the second effect reads "a" and, when it is 1, the memo.

\* what each getter returns now
Cur == [s \in Srcs |-> IF s \in Sigs THEN value[s] ELSE mvalue[s]]

\* The next getter call of c's function after the calls recorded in sn, or
\* None when the function is about to return.
NextRead(c, sn) ==
  IF c \in Memos THEN
    IF "a" \notin DOMAIN sn THEN "a"
    ELSE IF "b" \notin DOMAIN sn THEN "b" ELSE None
  ELSE IF c = EffectSeq[1] THEN
    IF "m1" \notin DOMAIN sn THEN "m1"
    ELSE IF "a" \notin DOMAIN sn THEN "a" ELSE None
  ELSE
    IF "a" \notin DOMAIN sn THEN "a"
    ELSE IF sn["a"] = 1 /\ "m1" \notin DOMAIN sn THEN "m1" ELSE None

\* the memo's function applied to the values vs of its inputs
PureValue(vs) == IF vs["a"] = 1 THEN vs["b"] ELSE 0

\* One getter call of the function on top of the stack: signal() or
\* memoGetter() tracks the caller and returns the stored value.
PureRead ==
  /\ InBody /\ Top.k = "run"
  /\ NextRead(Top.c, seen[Top.c]) # None
  /\ LET c == Top.c
         s == NextRead(c, seen[c])
     IN /\ subs' = TrackSubs(subs, s, currentEffect)
        /\ deps' = TrackDeps(deps, s, currentEffect)
        /\ bodyReads' = [bodyReads EXCEPT ![c] = @ \cup {s}]
        /\ seen' = [seen EXCEPT ![c] = (s :> Cur[s]) @@ @]
  /\ UNCHANGED <<value, mvalue, initialized, cleanups, disposed, running,
                 effectQueue, isBatching, microtasks, currentEffect, stack,
                 exc, status, fuel>>
  /\ UNCHANGED <<flushObs, regs, invoked, otherObs>>
  /\ UNCHANGED <<owner, cinv, dstage>>

\* The function on top of the stack returns; a memo returns its product.
PureFinish ==
  /\ InBody /\ Top.k = "run"
  /\ NextRead(Top.c, seen[Top.c]) = None
  /\ \/ Return
     \/ MemoReturn(PureValue(seen[Top.c]))

\* what the scheduler and the running functions do on their own
PureSystem ==
  \/ RunEnter
  \/ PureRead
  \/ PureFinish
  \/ DisposeFinish
  \/ FlushBegin
  \/ FlushNext
  \/ FlushAfter
  \/ FlushEnd

\* what the caller does between the turns: create the memo, then the
\* effects, write the signals, dispose the effects
PureCaller ==
  /\ AtTop
  /\ \/ \E s \in Sigs, v \in Vals : SignalWrite(s, v)
     \/ \E m \in Memos : CreateMemo(m)
     \/ \E e \in Effects : status["m1"] = "live" /\ CreateEffect(e)
     \/ \E d \in Effects : CallDisposer(d)

NextPure == PureSystem \/ PureCaller

\* The microtask queue runs every callback handed to it, and a function
\* that only reads runs to its return: the system's steps are weakly fair.
\* The caller is not: the writes may stop at any point.
SpecPure == Init /\ [][NextPure]_vars /\ WF_vars(PureSystem)

\* no computation on the stack, nothing pending, no flush scheduled
Quiescent == stack = <<>> /\ effectQueue = <<>> /\ microtasks = 0

\* the memo c holds its function of the current inputs
MemoCurrent(c) == mvalue[c] = PureValue(Cur)

\* the last run of the effect c observed the current value of all it read
EffectCurrent(c) == \A s \in DOMAIN seen[c] : seen[c][s] = Cur[s]

\* C25: Eventual consistency.  With functions that only read, the system
\* always reaches a lasting state with nothing on the stack, an empty
\* queue and no flush scheduled, and in every such state the memo's
\* cached value is its function of the current signals and the last run
\* of every effect that is not disposed observed the current value of
\* every signal and memo it read.
C25_EventualConsistency ==
  /\ [](Quiescent =>
          /\ \A m \in Memos : status[m] = "live" => MemoCurrent(m)
          /\ \A e \in Effects :
               status[e] = "live" /\ ~disposed[e] => EffectCurrent(e))
  /\ <>[]Quiescent

\* The diamond: during a flush, the first effect has run before the memo
\* and observed a value of the memo that is no longer the product.
C25_Witness ==
  /\ InFlush /\ Top.k = "flush" /\ Top.c = None /\ exc = None
  /\ status["m1"] = "live" /\ status[EffectSeq[1]] = "live"
  /\ flushBodies[EffectSeq[1]] >= 1
  /\ "m1" \in DOMAIN seen[EffectSeq[1]]
  /\ seen[EffectSeq[1]]["m1"] # PureValue(Cur)
  /\ "m1" \in Range(effectQueue)

\* the frames of the stack in which fn() of c is executing
BodyFrames(c) ==
  {i \in 1..Len(stack) :
     stack[i].k = "run" /\ stack[i].c = c /\ stack[i].ph = "body"}

\* C26: No re-entrant execution.  The body of a computation is never
\* executing twice at once; effect.running is true whenever the body is
\* executing, in the initial run as in a re-run; and it is true only
\* while the flush loop is inside its call of that computation.
C26_NoReentrantExecution ==
  \A c \in Comps :
    /\ Cardinality(BodyFrames(c)) <= 1
    /\ BodyFrames(c) # {} => running[c]
    /\ running[c] => InFlush /\ stack[1].c = c

=============================================================================
